---- MODULE Spec2Model ----
(***************************************************************************)
(* State-machine model of the TRBD event logger: the Qt application        *)
(* (event_logger_qt.py), its earlier copy                                  *)
(* (event_logger_qt_original_backup.py) and the Flask application          *)
(* (event_logger_gui.py).                                                  *)
(*                                                                         *)
(* Conventions.                                                            *)
(*  - A datetime is a record of the whole seconds since the model's epoch  *)
(*    and the microseconds within the second; the clock only moves         *)
(*    forward.                                                             *)
(*  - A text (a CSV field, the notes line) is a sequence of tokens: every  *)
(*    literal of the program is one token, every character typed by the    *)
(*    operator or produced by a number format is one token.  A character   *)
(*    outside ASCII is the token "U+" and its code point.                  *)
(*  - A Python dict is the sequence of its items in insertion order.       *)
(*  - An optional value (None or a value) is a sequence of length 0 or 1.  *)
(***************************************************************************)
EXTENDS Integers, Sequences, FiniteSets, TLC

(***************************************************************************)
(* Bounds of the model.                                                    *)
(***************************************************************************)
\* the handlers of a run append at most this many rows: a step that would
\* append a further row is not taken
MaxRows == 2
\* the Flask program receives at most this many requests
MaxRequests == 3

(***************************************************************************)
(* Sampled inputs.                                                         *)
(***************************************************************************)
\* seconds in a day, as strftime("%Y-%m-%d") / strftime("%H:%M:%S") split a datetime
SecondsPerDay == 86400
\* milliseconds in a second, as QTime.toString("HH:mm:ss") truncates a QTime
MsPerSecond == 1000
\* datetime(...): the second since the epoch and the microsecond in it
Datetime(sec, usec) == [sec |-> sec, usec |-> usec]
\* the application starts in the last second before midnight, so that both a
\* run within one day and a run across a date change are covered
StartClock == SecondsPerDay - 1
\* the reading of datetime.now() when the program starts
Opening == Datetime(StartClock, 900000)
\* a reading 1.2 seconds later, two seconds later on the clock face
Later == Datetime(StartClock + 2, 100000)
\* the readings of datetime.now() the handlers may see
Instants == {Opening, Later}
\* two names of the button catalogue
Events == {"Meal", "Walk"}
\* the names the requests to the Flask program carry
RequestNames == Events
\* the route takes data["event"] as it comes: a request may also carry the
\* name of a marker row
MarkerRequests == RequestNames \cup {"SESSION END"}
\* what the operator may have typed in the notes line of the main window, or
\* sent as the notes of a request
NoteInputs == {<<>>, <<" ", "a", " ">>}
\* notes the operator can type that begin with the word abort_event uses
MarkedNotes == {<<>>, <<"ABORTED", " by mistake">>}
\* what the operator may have put in the notes line of the missing-event
\* dialog: a character between white space
DialogNotes == {<<"\t", "a", " ", "U+00A0">>}
\* the same, and white space only
DialogNotesWide == DialogNotes \cup {<<" ", "\t">>}
\* the name chosen in the missing-event dialog
MissingNames == {"Meal"}
\* the event name of the requests that arrive beside calls of log_to_csv
LogRequests == {"Meal"}
\* QTime values (milliseconds since midnight) of the two time editors
QTimes == {0, 1000}
\* the same, and a value within a second
QTimesFine == QTimes \cup {500}
\* the seconds of the start times, the spans in seconds and the microseconds
\* that durations are computed for: an end before the start, and spans up to
\* a minute, an hour, a day, a hundred hours, and past each
DurationStarts == {59, StartClock}
DurationSpans == {-1, 0, 1, 59, 60, 61, 3599, 3600, 3661, 86399, 86400, 90061,
                  359999, 360000, 363725}
DurationMicros == {0, 100000, 900000}
\* the calls of utils.log_to_csv that are tried: an event with no end and no
\* notes, an event with an end and notes
LibraryCalls ==
    {[event_name |-> "Meal", start_time |-> Opening, end_time |-> <<>>,
      notes |-> <<>>],
     [event_name |-> "Walk", start_time |-> Opening, end_time |-> <<Later>>,
      notes |-> <<" ", "a", " ">>]}
\* the request threads of the Flask development server that run at once
ThreadIds == {1, 2}
\* answers to a Yes / No / Cancel question box
Replies == {"Yes", "No", "Cancel"}
Variants == {"qt", "backup", "web"}

(***************************************************************************)
(* Text and number formatting.                                             *)
(***************************************************************************)
Digit == <<"0", "1", "2", "3", "4", "5", "6", "7", "8", "9">>

RECURSIVE Decimal(_)
\* str(n) for n >= 0
Decimal(n) == IF n < 10 THEN <<Digit[n + 1]>>
              ELSE Decimal(n \div 10) \o <<Digit[(n % 10) + 1]>>

\* f"{n:02d}": the sign counts for the width
Pad2(n) == IF n < 0 THEN <<"-">> \o Decimal(-n)
           ELSE IF n < 10 THEN <<"0">> \o Decimal(n) ELSE Decimal(n)

\* f"{hours:02d}:{minutes:02d}:{seconds:02d}"
HMS(hours, minutes, seconds) ==
    Pad2(hours) \o <<":">> \o Pad2(minutes) \o <<":">> \o Pad2(seconds)

\* datetime.strftime("%H:%M:%S")
StrfTime(t) ==
    LET s == t.sec % SecondsPerDay
    IN  HMS(s \div 3600, (s % 3600) \div 60, s % 60)

\* datetime.strftime("%Y-%m-%d"): the calendar date is represented by the
\* number of the day, written in decimal after the token "day "
StrfDate(t) == <<"day ">> \o Decimal(t.sec \div SecondsPerDay)

\* a < b of two datetimes
Before(a, b) == a.sec < b.sec \/ (a.sec = b.sec /\ a.usec < b.usec)

\* int((end_time - start).total_seconds()): the difference in seconds, cut
\* towards zero
IntTotalSeconds(start, end_time) ==
    LET seconds == end_time.sec - start.sec
        micros  == end_time.usec - start.usec
    IN  IF seconds > 0 /\ micros < 0 THEN seconds - 1
        ELSE IF seconds < 0 /\ micros > 0 THEN seconds + 1
        ELSE seconds

NA == <<"N/A">>

\* the characters str.isspace() holds for
Whitespace ==
    {" ", "\t", "\n", "\r", "\f", "U+000B", "U+001C", "U+001D", "U+001E",
     "U+001F", "U+0085", "U+00A0", "U+1680", "U+2000", "U+2001", "U+2002",
     "U+2003", "U+2004", "U+2005", "U+2006", "U+2007", "U+2008", "U+2009",
     "U+200A", "U+2028", "U+2029", "U+202F", "U+205F", "U+3000"}

IsSpace(c) == c \in Whitespace

RECURSIVE LStrip(_)
LStrip(s) == IF s # <<>> /\ IsSpace(Head(s)) THEN LStrip(Tail(s)) ELSE s

RECURSIVE RStrip(_)
RStrip(s) == IF s # <<>> /\ IsSpace(s[Len(s)])
             THEN RStrip(SubSeq(s, 1, Len(s) - 1)) ELSE s

\* str.strip()
Strip(s) == RStrip(LStrip(s))

\* truth value of a Python str
Truthy(s) == s # <<>>

\* s.startswith(p)
StartsWith(s, p) == Len(s) >= Len(p) /\ SubSeq(s, 1, Len(p)) = p

(***************************************************************************)
(* Optional values.                                                        *)
(***************************************************************************)
None == <<>>
Some(x) == <<x>>
IsNone(o) == o = <<>>
Value(o) == o[1]

(***************************************************************************)
(* CSV rows.                                                               *)
(***************************************************************************)
Row(event, start_date, start_time, end_date, end_time, notes) ==
    [Event |-> event, StartDate |-> start_date, StartTime |-> start_time,
     EndDate |-> end_date, EndTime |-> end_time, Notes |-> notes]

\* the header row written by setup_data_file
Header == Row("Event", <<"Start Date">>, <<"Start Time">>, <<"End Date">>,
              <<"End Time">>, <<"Notes">>)

\* LogEventRow with the end fields always written as N/A
LogEventRowEndDropped(event_name, start_time, end_time, notes) ==
    Row(event_name, StrfDate(start_time), StrfTime(start_time), NA, NA, notes)

\* LogEventRow that writes N/A for the end time of every row
LogEventRowTimeDropped(event_name, start_time, end_time, notes) ==
    Row(event_name, StrfDate(start_time), StrfTime(start_time),
        IF IsNone(end_time) THEN NA ELSE StrfDate(Value(end_time)), NA, notes)

\* the row log_event builds; end_time is an optional datetime
LogEventRow(event_name, start_time, end_time, notes) ==
    LET end_date     == IF IsNone(end_time) THEN NA ELSE StrfDate(Value(end_time))
        end_time_str == IF IsNone(end_time) THEN NA ELSE StrfTime(Value(end_time))
    IN  Row(event_name, StrfDate(start_time), StrfTime(start_time),
            end_date, end_time_str, notes)

\* SessionStartRow stamped one second late
SessionStartRowLate(session_start) ==
    Row("SESSION START", StrfDate(Datetime(session_start.sec + 1, 0)),
        StrfTime(Datetime(session_start.sec + 1, 0)), NA, NA,
        <<"Session started">>)

\* the row record_session_start writes
SessionStartRow(session_start) ==
    Row("SESSION START", StrfDate(session_start), StrfTime(session_start),
        NA, NA, <<"Session started">>)

\* calculate_duration with the hours wrapped at a day
calculate_duration_wrapping(start_time, end_time) ==
    IF IsNone(start_time) \/ IsNone(end_time) THEN NA
    ELSE LET total_seconds == IntTotalSeconds(Value(start_time), Value(end_time))
         IN  HMS((total_seconds \div 3600) % 24, (total_seconds % 3600) \div 60,
                 total_seconds % 60)

\* calculate_duration of utils.py; start_time and end_time are optional
\* datetimes
calculate_duration(start_time, end_time) ==
    IF IsNone(start_time) \/ IsNone(end_time) THEN NA
    ELSE LET total_seconds == IntTotalSeconds(Value(start_time), Value(end_time))
             hours   == total_seconds \div 3600
             minutes == (total_seconds % 3600) \div 60
             seconds == total_seconds % 60
         IN  HMS(hours, minutes, seconds)

\* duration_str of end_session: the whole seconds from start to end_time
DurationStr(start, end_time) ==
    LET total_seconds == IntTotalSeconds(start, end_time)
    IN  HMS(total_seconds \div 3600, (total_seconds % 3600) \div 60,
            total_seconds % 60)

\* the row end_session writes; session_start is an optional datetime
SessionEndRow(session_start, end_time) ==
    IF ~IsNone(session_start)
    THEN Row("SESSION END", StrfDate(Value(session_start)),
             StrfTime(Value(session_start)), StrfDate(end_time), StrfTime(end_time),
             <<"Session ended, duration: ">>
                 \o DurationStr(Value(session_start), end_time))
    ELSE Row("SESSION END", NA, NA, StrfDate(end_time), StrfTime(end_time),
             <<"Session ended, duration: N/A (session start was skipped)">>)

(***************************************************************************)
(* Python dict, as the sequence of its items [name, start] in insertion    *)
(* order.                                                                  *)
(***************************************************************************)
EmptyDict == <<>>
Item(k, v) == [name |-> k, start |-> v]
Keys(d) == {d[i].name : i \in 1..Len(d)}
\* k in d
DictHas(d, k) == k \in Keys(d)
\* d[k]
DictGet(d, k) == d[CHOOSE i \in 1..Len(d) : d[i].name = k].start
\* d after d.pop(k)
DictPop(d, k) == SelectSeq(d, LAMBDA it : it.name # k)
\* d after d[k] = v
DictSet(d, k, v) ==
    IF DictHas(d, k)
    THEN [i \in 1..Len(d) |-> IF d[i].name = k THEN Item(k, v) ELSE d[i]]
    ELSE Append(d, Item(k, v))
\* next(iter(d)) of a non-empty dict
DictFirst(d) == d[1].name

(***************************************************************************)
(* State.                                                                  *)
(***************************************************************************)
VARIABLES
    variant,             \* which of the three programs runs
    faulty,              \* whether a write to the log file may raise OSError
    clock,               \* datetime.now()
    data_file,           \* the rows of the CSV file, header included
    rows_at_open,        \* rows in the file when setup_data_file had ensured the header
    session_start_attr,  \* whether the attribute session_start_time exists
    session_start_time,  \* optional datetime
    record_start_time,   \* self.record_start_time (event_logger_qt.py)
    run_parser,          \* self.run_parser (event_logger_qt.py)
    active_events,       \* dict: event name -> start datetime
    current_event,       \* optional event name
    active_button,       \* optional event name: the button of that event
    enabled,             \* the event buttons that are enabled
    missing_enabled,     \* whether the missing-event button is enabled
    notes_input,         \* text of the notes line
    status,              \* status label (Qt) / "status" of the last response (web)
    message,             \* message boxes of the last handler (Qt) / "message" of the last response (web)
    closed,              \* the main window has been closed, or the process
                         \* has ended on an exception
    box,                 \* the modal box in which a handler of the Qt
                         \* programs waits for the operator ("" when none)
    session_end_time,    \* end_time of end_session while it waits in its
                         \* question box (optional datetime)
    dropped,             \* history: the entry that active_events.clear() removed
                         \* last when another event was started (optional)
    threads,             \* the request threads of the Flask server: where each
                         \* is in its handler, and the handler's locals
    requests,            \* the number of requests the Flask server has received
    duration_args,       \* the start and the end (optional datetimes) that a
                         \* duration is computed from
    duration_str         \* the duration computed from them, and by which
                         \* function (optional)

vars == <<variant, faulty, clock, data_file, rows_at_open, session_start_attr,
          session_start_time, record_start_time, run_parser, active_events,
          current_event, active_button, enabled, missing_enabled, notes_input,
          status, message, closed, box, session_end_time, dropped, threads, requests,
          duration_args,
          duration_str>>

\* fixed after construction
config == <<variant, faulty, rows_at_open, session_start_attr,
            session_start_time, record_start_time>>

IsQt == variant \in {"qt", "backup"}

\* rows the run has appended after the header step
Appended == SubSeq(data_file, rows_at_open + 1, Len(data_file))

\* possible results of one write to the log file: TRUE when it succeeds
IoOutcomes == IF faulty THEN BOOLEAN ELSE {TRUE}
\* the results to consider for a write that is attempted only in some cases
WriteOutcomes(attempted) == IF attempted THEN IoOutcomes ELSE {TRUE}

(***************************************************************************)
(* Texts shown to the operator.                                            *)
(***************************************************************************)
StatusIdle == <<"Press a button to start an event">>
StatusStarted(e) == <<e, " has started">>
StatusAborted == <<"Event Aborted">>
NoMessage == <<>>
\* no modal box is open
NoBox == ""
\* the question box "Active Event" of end_session
EndSessionQuestion == "Active Event (end_session)"
\* the information box "Session Ended" that end_session shows after its write
SessionEndedBox == "Session Ended"
\* the question box "Active Event" of closeEvent
CloseQuestion == "Active Event (closeEvent)"
\* an exception left the handler: the process aborts (Qt) / HTTP 500 (Flask)
Unhandled == <<"Unhandled exception">>

(***************************************************************************)
(* The handlers, as functions of the object's state.  self is the record   *)
(* of the fields a handler can change; raised is set when an exception     *)
(* leaves the handler, and the statements after the raise are not run.     *)
(***************************************************************************)
Self == [active_events |-> active_events, data_file |-> data_file,
         current_event |-> current_event, active_button |-> active_button,
         enabled |-> enabled, missing_enabled |-> missing_enabled,
         notes_input |-> notes_input, status |-> status, message |-> NoMessage,
         run_parser |-> run_parser, closed |-> closed, box |-> box,
         end_time |-> session_end_time, raised |-> FALSE]

\* the state a handler of the Qt programs leaves behind
Commit(s) ==
    /\ active_events' = s.active_events
    /\ data_file' = s.data_file
    /\ current_event' = s.current_event
    /\ active_button' = s.active_button
    /\ enabled' = s.enabled
    /\ missing_enabled' = s.missing_enabled
    /\ notes_input' = s.notes_input
    /\ status' = s.status
    /\ message' = IF s.raised THEN Unhandled ELSE s.message
    /\ run_parser' = s.run_parser
    \* an exception that leaves a slot or closeEvent ends the process (PyQt6
    \* calls qFatal): the window is gone and no handler runs again
    /\ closed' = (s.closed \/ s.raised)
    /\ box' = IF s.raised THEN NoBox ELSE s.box
    /\ session_end_time' = IF s.raised THEN None ELSE s.end_time

\* log_event that opens the file with mode "w"
log_event_truncating(s, event_name, start_time, end_time, notes, ok) ==
    IF ok
    THEN [s EXCEPT !.data_file = <<LogEventRow(event_name, start_time,
                                               end_time, notes)>>]
    ELSE [s EXCEPT !.raised = TRUE]

\* log_to_csv of utils.py, which no program calls: the rows of csv_file
\* after the call; end_time is an optional datetime
log_to_csv(csv_file, event_name, start_time, end_time, notes) ==
    LET end_date     == IF ~IsNone(end_time) THEN StrfDate(Value(end_time)) ELSE NA
        end_time_str == IF ~IsNone(end_time) THEN StrfTime(Value(end_time)) ELSE NA
        data == Row(event_name, StrfDate(start_time), StrfTime(start_time),
                    end_date, end_time_str, notes)
    IN  Append(csv_file, data)

\* log_event: one row appended to the file, or OSError
log_event(s, event_name, start_time, end_time, notes, ok) ==
    IF ok
    THEN [s EXCEPT !.data_file = Append(@, LogEventRow(event_name, start_time,
                                                      end_time, notes))]
    ELSE [s EXCEPT !.raised = TRUE]

\* active_events.clear(); active_events[event_name] = datetime.now()
StartEntry(d, event_name, now) == DictSet(EmptyDict, event_name, now)

\* DisableAllExcept that disables no button
DisableNothing(en, button) == en

\* disable_all_buttons_except(button): the event buttons left enabled
DisableAllExcept(en, button) == en \ (Events \ {button})

\* toggle_event that logs the ended event with the end time as its start
toggle_event_start_now(s, event_name, now, ok) ==
    IF DictHas(s.active_events, event_name)
    THEN LET s1 == [s EXCEPT !.active_events = DictPop(@, event_name)]
             s2 == log_event(s1, event_name, now, Some(now), s.notes_input, ok)
         IN  IF s2.raised THEN s2
             ELSE [s2 EXCEPT !.current_event = None,
                             !.active_button = None,
                             !.notes_input = <<>>,
                             !.enabled = Events,
                             !.missing_enabled = TRUE,
                             !.status = StatusIdle]
    ELSE [s EXCEPT !.active_events = StartEntry(@, event_name, now),
                   !.current_event = Some(event_name),
                   !.active_button = Some(event_name),
                   !.enabled = DisableAllExcept(@, event_name),
                   !.missing_enabled = FALSE,
                   !.status = StatusStarted(event_name)]

\* toggle_event that leaves current_event and active_button set when the
\* event ends
toggle_event_keeps_current(s, event_name, now, ok) ==
    IF DictHas(s.active_events, event_name)
    THEN LET s1 == [s EXCEPT !.active_events = DictPop(@, event_name)]
             s2 == log_event(s1, event_name, DictGet(s.active_events, event_name),
                             Some(now), s.notes_input, ok)
         IN  IF s2.raised THEN s2
             ELSE [s2 EXCEPT !.notes_input = <<>>,
                             !.enabled = Events,
                             !.missing_enabled = TRUE,
                             !.status = StatusIdle]
    ELSE [s EXCEPT !.active_events = StartEntry(@, event_name, now),
                   !.current_event = Some(event_name),
                   !.active_button = Some(event_name),
                   !.enabled = DisableAllExcept(@, event_name),
                   !.missing_enabled = FALSE,
                   !.status = StatusStarted(event_name)]

\* toggle_event that writes a row with no end when an event starts
toggle_event_start_logged(s, event_name, now, ok) ==
    LET notes == s.notes_input
    IN  IF DictHas(s.active_events, event_name)
        THEN LET start_time == DictGet(s.active_events, event_name)
                 s1 == [s EXCEPT !.active_events = DictPop(@, event_name)]
                 s2 == log_event(s1, event_name, start_time, Some(now), notes, ok)
             IN  IF s2.raised THEN s2
                 ELSE [s2 EXCEPT !.current_event = None,
                                 !.active_button = None,
                                 !.notes_input = <<>>,
                                 !.enabled = Events,
                                 !.missing_enabled = TRUE,
                                 !.status = StatusIdle]
        ELSE LET s1 == log_event(s, event_name, now, None, notes, ok)
             IN  [s1 EXCEPT !.active_events = StartEntry(@, event_name, now),
                            !.current_event = Some(event_name),
                            !.active_button = Some(event_name),
                            !.enabled = DisableAllExcept(@, event_name),
                            !.missing_enabled = FALSE,
                            !.status = StatusStarted(event_name)]

\* toggle_event that leaves the missing-event button as it is when an event
\* starts
toggle_event_missing_open(s, event_name, now, ok) ==
    LET notes == s.notes_input
    IN  IF DictHas(s.active_events, event_name)
        THEN LET start_time == DictGet(s.active_events, event_name)
                 s1 == [s EXCEPT !.active_events = DictPop(@, event_name)]
                 s2 == log_event(s1, event_name, start_time, Some(now), notes, ok)
             IN  IF s2.raised THEN s2
                 ELSE [s2 EXCEPT !.current_event = None,
                                 !.active_button = None,
                                 !.notes_input = <<>>,
                                 !.enabled = Events,
                                 !.missing_enabled = TRUE,
                                 !.status = StatusIdle]
        ELSE [s EXCEPT !.active_events = StartEntry(@, event_name, now),
                       !.current_event = Some(event_name),
                       !.active_button = Some(event_name),
                       !.enabled = DisableAllExcept(@, event_name),
                       !.status = StatusStarted(event_name)]

\* toggle_event of the Qt programs
toggle_event(s, event_name, now, ok) ==
    LET notes == s.notes_input
    IN  IF DictHas(s.active_events, event_name)
        THEN LET start_time == DictGet(s.active_events, event_name)
                 s1 == [s EXCEPT !.active_events = DictPop(@, event_name)]
                 s2 == log_event(s1, event_name, start_time, Some(now), notes, ok)
             IN  IF s2.raised THEN s2
                 ELSE [s2 EXCEPT !.current_event = None,
                                 !.active_button = None,
                                 !.notes_input = <<>>,
                                 !.enabled = Events,
                                 !.missing_enabled = TRUE,
                                 !.status = StatusIdle]
        ELSE [s EXCEPT !.active_events = StartEntry(@, event_name, now),
                       !.current_event = Some(event_name),
                       !.active_button = Some(event_name),
                       !.enabled = DisableAllExcept(@, event_name),
                       !.missing_enabled = FALSE,
                       !.status = StatusStarted(event_name)]

\* AbortNotes that drops the operator's notes
AbortNotesDropped(notes) == <<"ABORTED">>

\* f"ABORTED: {notes}" if notes else "ABORTED"
AbortNotes(notes) == IF Truthy(notes) THEN <<"ABORTED", ": ">> \o notes
                     ELSE <<"ABORTED">>

\* abort_event that shows no message when nothing is active and falls through
\* to the update of the window
abort_event_silent(s, ok) ==
    IF s.active_events = EmptyDict
    THEN [s EXCEPT !.notes_input = <<>>, !.status = StatusAborted]
    ELSE LET event_name == DictFirst(s.active_events)
             start_time == DictGet(s.active_events, event_name)
             s1 == [s EXCEPT !.active_events = DictPop(@, event_name)]
             s2 == log_event(s1, event_name, start_time, None,
                             AbortNotes(s.notes_input), ok)
         IN  IF s2.raised THEN s2
             ELSE [s2 EXCEPT !.current_event = None,
                             !.active_button = None,
                             !.notes_input = <<>>,
                             !.enabled = Events,
                             !.missing_enabled = TRUE,
                             !.status = StatusAborted]

\* abort_event that updates the window before it writes the row
abort_event_status_first(s, ok) ==
    IF s.active_events = EmptyDict
    THEN [s EXCEPT !.message = <<"No Active Event">>]
    ELSE LET notes == s.notes_input
             event_name == DictFirst(s.active_events)
             start_time == DictGet(s.active_events, event_name)
             s1 == [s EXCEPT !.active_events = DictPop(@, event_name),
                             !.current_event = None,
                             !.active_button = None,
                             !.notes_input = <<>>,
                             !.enabled = Events,
                             !.missing_enabled = TRUE,
                             !.status = StatusAborted]
         IN  log_event(s1, event_name, start_time, None, AbortNotes(notes), ok)

\* abort_event of the Qt programs
abort_event(s, ok) ==
    IF s.active_events = EmptyDict
    THEN [s EXCEPT !.message = <<"No Active Event">>]
    ELSE LET notes == s.notes_input
             event_name == DictFirst(s.active_events)
             start_time == DictGet(s.active_events, event_name)
             s1 == [s EXCEPT !.active_events = DictPop(@, event_name)]
             s2 == log_event(s1, event_name, start_time, None, AbortNotes(notes), ok)
         IN  IF s2.raised THEN s2
             ELSE [s2 EXCEPT !.current_event = None,
                             !.active_button = None,
                             !.notes_input = <<>>,
                             !.enabled = Events,
                             !.missing_enabled = TRUE,
                             !.status = StatusAborted]

\* TimeRangeValid with < for <=
TimeRangeValidLoose(start_qtime, end_qtime) == ~(end_qtime < start_qtime)

\* the validation of submit_missing_event: not (end_qtime <= start_qtime)
TimeRangeValid(start_qtime, end_qtime) == ~(end_qtime <= start_qtime)

\* strptime(f"{current_date} {qtime.toString('HH:mm:ss')}"): the current date
\* at the QTime's whole second
MissingDatetime(now, qtime) ==
    Datetime((now.sec \div SecondsPerDay) * SecondsPerDay
                 + (qtime \div MsPerSecond), 0)

\* "Missing event", followed by ": " and the stripped notes when there are any
MissingNotes(user_notes) ==
    IF Truthy(Strip(user_notes))
    THEN <<"Missing event", ": ">> \o Strip(user_notes)
    ELSE <<"Missing event">>

\* submit_missing_event of the Qt programs
submit_missing_event(s, event_name, start_qtime, end_qtime, user_notes, now, ok) ==
    IF ~TimeRangeValid(start_qtime, end_qtime)
    THEN [s EXCEPT !.message = <<"Invalid Time Range">>]
    ELSE LET start_datetime == MissingDatetime(now, start_qtime)
             end_datetime == MissingDatetime(now, end_qtime)
             s1 == log_event(s, event_name, start_datetime, Some(end_datetime),
                             MissingNotes(user_notes), ok)
         IN  IF s1.raised THEN s1 ELSE [s1 EXCEPT !.message = <<"Success">>]

\* closeEvent_answer that accepts the close on Cancel
closeEvent_cancel_accepts(s, reply, ok) ==
    IF reply = "Yes"
    THEN LET s1 == abort_event([s EXCEPT !.box = NoBox], ok)
         IN  IF s1.raised THEN s1 ELSE [s1 EXCEPT !.closed = TRUE]
    ELSE [s EXCEPT !.box = NoBox, !.closed = TRUE]

\* closeEvent of the Qt programs up to its question box: with an active
\* event the handler waits for the answer, with none it accepts the close
closeEvent(s) ==
    IF s.active_events # EmptyDict
    THEN [s EXCEPT !.box = CloseQuestion]
    ELSE [s EXCEPT !.closed = TRUE]

\* closeEvent after its question box.  reply answers the box
closeEvent_answer(s, reply, ok) ==
    CASE reply = "Yes" ->
           LET s1 == abort_event([s EXCEPT !.box = NoBox], ok)
           IN  IF s1.raised THEN s1 ELSE [s1 EXCEPT !.closed = TRUE]
      [] reply = "No" -> [s EXCEPT !.box = NoBox, !.closed = TRUE]
      [] OTHER -> [s EXCEPT !.box = NoBox]

\* WriteSessionEnd that shows the box without writing the row
WriteSessionEndNoRow(s, now, ok) ==
    [s EXCEPT !.message = <<"Session Ended">>, !.box = SessionEndedBox,
              !.end_time = None]

\* the write of end_session: the SESSION END row with the end_time read when
\* the handler began, and the information box, in which the handler waits
WriteSessionEnd(s, now, ok) ==
    IF ~ok THEN [s EXCEPT !.raised = TRUE]
    ELSE [s EXCEPT !.data_file = Append(@, SessionEndRow(session_start_time, now)),
                   !.message = <<"Session Ended">>,
                   !.box = SessionEndedBox,
                   !.end_time = None]

\* end_session of the Qt programs up to its first box: end_time =
\* datetime.now() and the duration, then the question box when an event is
\* active, else the write and the information box
end_session(s, now, ok) ==
    IF ~session_start_attr
    THEN \* self.session_start_time: AttributeError
         [s EXCEPT !.raised = TRUE]
    ELSE IF s.active_events # EmptyDict
         THEN [s EXCEPT !.box = EndSessionQuestion, !.end_time = Some(now)]
         ELSE WriteSessionEnd(s, now, ok)

\* reply == QMessageBox.StandardButton.Cancel in end_session
EndSessionCancelled(reply) == reply = "Cancel"

\* end_session_answer that treats the answer Yes as it treats No
end_session_yes_as_no(s, reply, abort_ok, ok) ==
    IF EndSessionCancelled(reply)
    THEN [s EXCEPT !.box = NoBox, !.end_time = None]
    ELSE WriteSessionEnd(s, Value(s.end_time), ok)

\* end_session after its question box: return on Cancel, abort_event on Yes,
\* then the write with the end_time read before the box
end_session_answer(s, reply, abort_ok, ok) ==
    CASE EndSessionCancelled(reply) -> [s EXCEPT !.box = NoBox, !.end_time = None]
      [] reply = "Yes" ->
           LET s1 == abort_event(s, abort_ok)
           IN  IF s1.raised THEN s1
               ELSE WriteSessionEnd(s1, Value(s.end_time), ok)
      [] OTHER -> WriteSessionEnd(s, Value(s.end_time), ok)

\* end_session after its information box: run_parser (event_logger_qt.py)
\* and self.close(), which runs closeEvent
end_session_close(s) ==
    closeEvent([s EXCEPT !.box = NoBox,
                         !.run_parser = IF variant = "qt" THEN TRUE ELSE @])

\* a request thread that runs no handler.  event, notes, start and now are
\* the handler's locals; used is the size of active_events that the iterator
\* of abort_event took at iter(); before is history: active_events and the number of
\* rows of the log when the request arrived, kept while no other request has
\* been in flight since (optional)
IdleThread == [pc |-> "idle", event |-> "", notes |-> <<>>, start |-> None,
               now |-> None, used |-> 0, before |-> None]

(***************************************************************************)
(* Construction: setup_data_file and record_session_start.                 *)
(***************************************************************************)
\* a file left by an earlier run that began in the same minute, and so under
\* the same name event_log_<%m%d_%H_%M>.csv: a Qt run that recorded its
\* start, a Flask run that logged a Meal
PriorFile(v) == IF v = "web"
                THEN <<Header, LogEventRow("Meal", Opening, Some(Opening), <<>>)>>
                ELSE <<Header, SessionStartRow(Opening)>>

\* AfterHeader that opens the file with mode "w" whether it exists or not
AfterHeaderRewritten(v, file_exists) == <<Header>>

\* the file after setup_data_file's header step
AfterHeader(v, file_exists) == IF file_exists THEN PriorFile(v) ELSE <<Header>>

\* record_session_start run twice
record_session_start_twice(rows, now) ==
    Append(Append(rows, SessionStartRow(now)), SessionStartRow(now))

\* record_session_start: the file after the SESSION START row is appended
record_session_start(rows, now) == Append(rows, SessionStartRow(now))

\* whether construction calls record_session_start
RecordsStart(v, file_exists, folder_empty, record) ==
    CASE v = "qt" -> ~file_exists /\ folder_empty
      [] v = "backup" -> record
      [] OTHER -> FALSE

\* the writes of construction that can raise OSError: the header write of a
\* new file and the write of record_session_start ("" when none raises)
ConstructionFailures(v, file_exists, folder_empty, record) ==
    {""} \cup (IF faulty /\ ~file_exists THEN {"header"} ELSE {})
         \cup (IF faulty /\ RecordsStart(v, file_exists, folder_empty, record)
               THEN {"start"} ELSE {})

\* the state after construction.  failed names the write that raised: the
\* exception leaves __init__ (Qt) or the module (Flask), so there is no
\* window and no server, and the file is absent (header) or holds the header
\* without the SESSION START row (start)
Construct(v, file_exists, folder_empty, record, failed) ==
    LET records == RecordsStart(v, file_exists, folder_empty, record)
                      /\ failed # "header"
        header  == IF failed = "header" THEN <<>> ELSE AfterHeader(v, file_exists)
    IN  /\ variant = v
        /\ clock = Opening
        /\ rows_at_open = Len(header)
        /\ data_file = IF records /\ failed # "start"
                       THEN record_session_start(header, Opening)
                       ELSE header
        /\ session_start_attr = (v = "backup" \/ records)
        /\ session_start_time = IF records THEN Some(Opening) ELSE None
        /\ record_start_time = CASE v = "qt" -> folder_empty
                                 [] v = "backup" -> record
                                 [] OTHER -> FALSE
        /\ run_parser = FALSE
        /\ active_events = EmptyDict
        /\ current_event = None
        /\ active_button = None
        /\ enabled = IF failed = "" THEN Events ELSE {}
        /\ missing_enabled = (failed = "")
        /\ notes_input = <<>>
        /\ status = IF v = "web" \/ failed # "" THEN <<>> ELSE StatusIdle
        /\ message = IF failed = "" THEN NoMessage ELSE Unhandled
        /\ closed = (failed # "")
        /\ box = NoBox
        /\ session_end_time = None
        /\ dropped = None
        /\ threads = [t \in ThreadIds |-> IdleThread]
        /\ requests = 0

\* the inputs of construction: an empty date folder holds no file, and only
\* event_logger_qt.py looks at the folder, only the backup takes the choice
\* of the startup dialog.  file_exists tells whether a file of the run's name
\* is already there
Constructed(file_exists) ==
    \E v \in Variants, folder_empty \in BOOLEAN, record \in BOOLEAN :
        /\ folder_empty => ~file_exists
        /\ v # "qt" => ~folder_empty
        /\ v # "backup" => ~record
        /\ \E failed \in ConstructionFailures(v, file_exists, folder_empty, record) :
              Construct(v, file_exists, folder_empty, record, failed)

\* the log file of the run is new
\* no duration is being computed
NoDuration == duration_args = [start |-> None, end |-> None] /\ duration_str = None

Init == faulty = FALSE /\ Constructed(FALSE) /\ NoDuration

InitIO == faulty = TRUE /\ Constructed(FALSE) /\ NoDuration

\* the program is started again within the minute of an earlier run: the
\* file of its name exists
InitReopen == faulty = FALSE /\ Constructed(TRUE) /\ NoDuration

(***************************************************************************)
(* Actions: the clock, the operator's input and the handlers.              *)
(***************************************************************************)
\* the window is open (Qt) / the server runs (Flask)
Running == ~closed
\* the main window takes the operator's input: no modal box is open
Ready == Running /\ box = NoBox
\* rows that the handlers have appended in a log of these rows
HandlerRows(rows) == Len(rows) - rows_at_open - Len(session_start_time)
\* the state s that a handler leaves keeps the log within the bound
WithinBound(s) == HandlerRows(s.data_file) <= MaxRows

\* what the handlers of the Qt programs leave alone
QtFrame == UNCHANGED <<config, clock, dropped, threads, requests,
                       duration_args, duration_str>>

Tick ==
    /\ Running
    /\ \E t \in Instants : Before(clock, t) /\ clock' = t
    /\ UNCHANGED <<config, data_file, run_parser, active_events, current_event,
                   active_button, enabled, missing_enabled, notes_input, status,
                   message, closed, box, session_end_time, dropped, threads, requests,
                   duration_args, duration_str>>

\* the operator edits the notes line of the main window
TypeNotes(text) ==
    /\ IsQt /\ Ready
    /\ text # notes_input
    /\ notes_input' = text
    /\ UNCHANGED <<config, clock, data_file, run_parser, active_events,
                   current_event, active_button, enabled, missing_enabled, status,
                   message, closed, box, session_end_time, dropped, threads, requests,
                   duration_args, duration_str>>

\* a click on an enabled event button
ClickEvent(event_name) ==
    /\ IsQt /\ Ready
    /\ event_name \in enabled
    /\ \E ok \in IoOutcomes :
          LET s == toggle_event(Self, event_name, clock, ok)
          IN  WithinBound(s) /\ Commit(s)
    /\ QtFrame

\* a click on the abort button
ClickAbort ==
    /\ IsQt /\ Ready
    /\ \E ok \in IoOutcomes :
          LET s == abort_event(Self, ok)
          IN  WithinBound(s) /\ Commit(s)
    /\ QtFrame

\* the missing-event dialog, opened by its button, is submitted
SubmitMissing(event_name, start_qtime, end_qtime, user_notes) ==
    /\ IsQt /\ Ready
    /\ missing_enabled
    /\ \E ok \in IoOutcomes :
          LET s == submit_missing_event(Self, event_name, start_qtime, end_qtime,
                                        user_notes, clock, ok)
          IN  WithinBound(s) /\ Commit(s)
    /\ QtFrame

\* the state of the window while a handler waits in a box or goes on after
\* it: the boxes the handler has shown stay as they are
Waiting == [Self EXCEPT !.message = message]

\* a click on "End Session and Close": the handler stops in its question box
\* when an event is active, else in its information box after the write
ClickEndSession ==
    /\ IsQt /\ Ready
    /\ \E ok \in WriteOutcomes(active_events = EmptyDict /\ session_start_attr) :
          LET s == end_session(Self, clock, ok)
          IN  WithinBound(s) /\ Commit(s)
    /\ QtFrame

\* the operator answers the question box of end_session; unless the answer
\* is Cancel the handler stops in its information box after the write
AnswerEndSession(reply) ==
    /\ IsQt /\ Running
    /\ box = EndSessionQuestion
    /\ \E abort_ok \in WriteOutcomes(reply = "Yes"),
          ok \in WriteOutcomes(reply # "Cancel") :
          LET s == end_session_answer(Waiting, reply, abort_ok, ok)
          IN  WithinBound(s) /\ Commit(s)
    /\ QtFrame

\* the operator closes the information box of end_session, which goes on to
\* close the window: closeEvent stops in its question box when an event is
\* active
CloseSessionEnded ==
    /\ IsQt /\ Running
    /\ box = SessionEndedBox
    /\ Commit(end_session_close(Waiting))
    /\ QtFrame

\* the operator closes the window
CloseWindow ==
    /\ IsQt /\ Ready
    /\ Commit(closeEvent(Self))
    /\ QtFrame

\* the operator answers the question box of closeEvent
AnswerClose(reply) ==
    /\ IsQt /\ Running
    /\ box = CloseQuestion
    /\ \E ok \in WriteOutcomes(reply = "Yes") :
          LET s == closeEvent_answer(Waiting, reply, ok)
          IN  WithinBound(s) /\ Commit(s)
    /\ QtFrame

(***************************************************************************)
(* The Flask handlers statement by statement.  app.run starts the          *)
(* development server, which serves every request on a thread of its own,  *)
(* and the handlers take no lock: two handlers interleave on active_events *)
(* and on the log between any two of their steps.                          *)
(***************************************************************************)
\* what a request thread leaves alone
ThreadFrame == UNCHANGED <<config, clock, run_parser, current_event,
                           active_button, enabled, missing_enabled,
                           notes_input, closed, box, session_end_time, duration_args,
                           duration_str>>
\* the threads that handle a request
InFlight == {t \in ThreadIds : threads[t].pc # "idle"}
\* a request is served by the first free thread
FirstFree(t) ==
    /\ threads[t].pc = "idle"
    /\ \A u \in ThreadIds : threads[u].pc = "idle" => t <= u
\* history: what the request that arrives finds, when it is the only one
Arrival == IF InFlight = {}
           THEN Some([active_events |-> active_events, rows |-> Len(data_file)])
           ELSE None
\* the request enters its handler with these locals; the requests in flight
\* are no longer the only ones
Enter(t, label, event_name, notes) ==
    /\ requests < MaxRequests
    /\ requests' = requests + 1
    /\ threads' = [u \in ThreadIds |->
                     IF u = t
                     THEN [pc |-> label, event |-> event_name, notes |-> notes,
                           start |-> None, now |-> None,
                           used |-> Len(active_events), before |-> Arrival]
                     ELSE [threads[u] EXCEPT !.before = None]]
\* the handler goes on to its next statement
Goto(t, label) ==
    /\ threads' = [threads EXCEPT ![t].pc = label]
    /\ UNCHANGED requests
\* the response of the request leaves the server
Respond(t, text, state) ==
    /\ message' = text
    /\ status' = state
    /\ threads' = [threads EXCEPT ![t] = IdleThread]
    /\ UNCHANGED <<active_events, data_file, dropped, requests>>
    /\ ThreadFrame

\* POST /toggle_event arrives: event_name = data["event"],
\* notes = data.get("notes", ""); if event_name in active_events
ReceiveToggle(t, event_name, notes) ==
    /\ variant = "web" /\ Running
    /\ FirstFree(t)
    /\ Enter(t, IF DictHas(active_events, event_name)
                THEN "toggle_pop" ELSE "toggle_clear", event_name, notes)
    /\ UNCHANGED <<active_events, data_file, status, message, dropped>>
    /\ ThreadFrame

\* start_time = active_events.pop(event_name): KeyError when the key is gone
Pop(t, label) ==
    IF DictHas(active_events, threads[t].event)
    THEN /\ active_events' = DictPop(active_events, threads[t].event)
         /\ threads' = [threads EXCEPT
                          ![t].start = Some(DictGet(active_events, threads[t].event)),
                          ![t].pc = label]
         /\ UNCHANGED requests
    ELSE /\ Goto(t, "error")
         /\ UNCHANGED active_events

TogglePop(t) ==
    /\ threads[t].pc = "toggle_pop"
    /\ Pop(t, "toggle_now")
    /\ UNCHANGED <<data_file, status, message, dropped>>
    /\ ThreadFrame

\* datetime.now(), the argument of the call of log_event
ToggleNow(t) ==
    /\ threads[t].pc = "toggle_now"
    /\ threads' = [threads EXCEPT ![t].now = Some(clock), ![t].pc = "toggle_log"]
    /\ UNCHANGED requests
    /\ UNCHANGED <<active_events, data_file, status, message, dropped>>
    /\ ThreadFrame

\* log_event of the Flask program: df.to_csv(data_file, mode="a") appends the
\* row, or raises OSError
WriteRow(t, row, label) ==
    /\ HandlerRows(data_file) < MaxRows
    /\ \E ok \in IoOutcomes :
          IF ok THEN data_file' = Append(data_file, row) /\ Goto(t, label)
          ELSE UNCHANGED data_file /\ Goto(t, "error")

\* log_event(event_name, start_time, <now>, notes)
ToggleLog(t) ==
    /\ threads[t].pc = "toggle_log"
    /\ WriteRow(t, LogEventRow(threads[t].event, Value(threads[t].start),
                               threads[t].now, threads[t].notes), "toggle_ended")
    /\ UNCHANGED <<active_events, status, message, dropped>>
    /\ ThreadFrame

\* return jsonify({"message": f"Ended {event_name}", ...})
ToggleEnded(t) ==
    /\ threads[t].pc = "toggle_ended"
    /\ Respond(t, <<"Ended ", threads[t].event>>, StatusIdle)

\* ToggleClear that writes the row of the event it removes
ToggleClearFlushing(t) ==
    /\ threads[t].pc = "toggle_clear"
    /\ active_events' = EmptyDict
    /\ dropped' = IF active_events # EmptyDict THEN Some(active_events[1])
                  ELSE dropped
    /\ data_file' = IF active_events # EmptyDict
                    THEN Append(data_file,
                                LogEventRow(active_events[1].name,
                                            active_events[1].start, None, <<>>))
                    ELSE data_file
    /\ Goto(t, "toggle_start_now")
    /\ UNCHANGED <<status, message>>
    /\ ThreadFrame

\* active_events.clear()
ToggleClear(t) ==
    /\ threads[t].pc = "toggle_clear"
    /\ active_events' = EmptyDict
    /\ dropped' = IF active_events # EmptyDict THEN Some(active_events[1])
                  ELSE dropped
    /\ Goto(t, "toggle_start_now")
    /\ UNCHANGED <<data_file, status, message>>
    /\ ThreadFrame

\* datetime.now(), the right-hand side of the assignment
ToggleStartNow(t) ==
    /\ threads[t].pc = "toggle_start_now"
    /\ threads' = [threads EXCEPT ![t].now = Some(clock), ![t].pc = "toggle_store"]
    /\ UNCHANGED requests
    /\ UNCHANGED <<active_events, data_file, status, message, dropped>>
    /\ ThreadFrame

\* active_events[event_name] = <now>
ToggleStore(t) ==
    /\ threads[t].pc = "toggle_store"
    /\ active_events' = DictSet(active_events, threads[t].event,
                                Value(threads[t].now))
    /\ Goto(t, "toggle_started")
    /\ UNCHANGED <<data_file, status, message, dropped>>
    /\ ThreadFrame

\* return jsonify({"message": f"Started {event_name}", ...})
ToggleStarted(t) ==
    /\ threads[t].pc = "toggle_started"
    /\ Respond(t, <<"Started ", threads[t].event>>,
               StatusStarted(threads[t].event))

\* POST /abort_event arrives: notes = data.get("notes", ""), and
\* iter(active_events): the iterator keeps the size the dict has now
ReceiveAbort(t, notes) ==
    /\ variant = "web" /\ Running
    /\ FirstFree(t)
    /\ Enter(t, "abort_next", "", notes)
    /\ UNCHANGED <<active_events, data_file, status, message, dropped>>
    /\ ThreadFrame

\* event_name = next(<iterator>, None): RuntimeError when the dict has
\* changed size since iter(), else the first key the dict has now, or None;
\* if event_name
AbortNext(t) ==
    /\ threads[t].pc = "abort_next"
    /\ threads' = [threads EXCEPT
                     ![t].event = IF Len(active_events) = threads[t].used
                                     /\ active_events # EmptyDict
                                  THEN DictFirst(active_events) ELSE "",
                     ![t].pc = IF Len(active_events) # threads[t].used
                               THEN "error"
                               ELSE IF active_events # EmptyDict
                                       /\ DictFirst(active_events) # ""
                                    THEN "abort_pop" ELSE "abort_none"]
    /\ UNCHANGED requests
    /\ UNCHANGED <<active_events, data_file, status, message, dropped>>
    /\ ThreadFrame

AbortPop(t) ==
    /\ threads[t].pc = "abort_pop"
    /\ Pop(t, "abort_log")
    /\ UNCHANGED <<data_file, status, message, dropped>>
    /\ ThreadFrame

\* notes = f"ABORTED: {notes}" if notes else "ABORTED";
\* log_event(event_name, start_time, None, notes)
AbortLog(t) ==
    /\ threads[t].pc = "abort_log"
    /\ WriteRow(t, LogEventRow(threads[t].event, Value(threads[t].start),
                               None, AbortNotes(threads[t].notes)), "abort_done")
    /\ UNCHANGED <<active_events, status, message, dropped>>
    /\ ThreadFrame

\* return jsonify({"message": f"Aborted {event_name}", ...})
AbortDone(t) ==
    /\ threads[t].pc = "abort_done"
    /\ Respond(t, <<"Aborted ", threads[t].event>>, StatusAborted)

\* return jsonify({"message": "No active event to abort.", ...})
AbortNone(t) ==
    /\ threads[t].pc = "abort_none"
    /\ Respond(t, <<"No active event to abort.">>, <<"No active event">>)

\* the exception leaves the handler: Flask answers with HTTP 500
Fail(t) ==
    /\ threads[t].pc = "error"
    /\ Respond(t, Unhandled, <<>>)

\* the steps of the Qt programs
NextQt ==
    \/ \E text \in NoteInputs : TypeNotes(text)
    \/ \E e \in Events : ClickEvent(e)
    \/ ClickAbort
    \/ \E e \in MissingNames, sq \in QTimes, eq \in QTimes, text \in DialogNotes :
          SubmitMissing(e, sq, eq, text)
    \/ ClickEndSession
    \/ \E reply \in Replies : AnswerEndSession(reply)
    \/ CloseSessionEnded
    \/ CloseWindow
    \/ \E reply \in Replies : AnswerClose(reply)

\* the steps of the Flask program
NextWeb ==
    \/ \E t \in ThreadIds, e \in RequestNames, text \in NoteInputs :
          ReceiveToggle(t, e, text)
    \/ \E t \in ThreadIds, text \in NoteInputs : ReceiveAbort(t, text)
    \/ \E t \in ThreadIds : TogglePop(t)
    \/ \E t \in ThreadIds : ToggleNow(t)
    \/ \E t \in ThreadIds : ToggleLog(t)
    \/ \E t \in ThreadIds : ToggleEnded(t)
    \/ \E t \in ThreadIds : ToggleClear(t)
    \/ \E t \in ThreadIds : ToggleStartNow(t)
    \/ \E t \in ThreadIds : ToggleStore(t)
    \/ \E t \in ThreadIds : ToggleStarted(t)
    \/ \E t \in ThreadIds : AbortNext(t)
    \/ \E t \in ThreadIds : AbortPop(t)
    \/ \E t \in ThreadIds : AbortLog(t)
    \/ \E t \in ThreadIds : AbortDone(t)
    \/ \E t \in ThreadIds : AbortNone(t)
    \/ \E t \in ThreadIds : Fail(t)

Next == Tick \/ NextQt \/ NextWeb

\* a call of utils.log_to_csv(data_file, ...) from outside the programs: it
\* appends its row to the file, or raises OSError, and touches nothing else;
\* it needs no window and no server
CallLogToCsv(event_name, start_time, end_time, notes) ==
    /\ HandlerRows(data_file) < MaxRows
    /\ \E ok \in IoOutcomes :
          data_file' = IF ok
                       THEN log_to_csv(data_file, event_name, start_time,
                                       end_time, notes)
                       ELSE data_file
    /\ UNCHANGED <<config, clock, run_parser, active_events, current_event,
                   active_button, enabled, missing_enabled, notes_input, status,
                   message, closed, box, session_end_time, dropped, threads, requests,
                   duration_args, duration_str>>

\* the calls of the functions of utils.py that append to the log
NextUtils ==
    \E call \in LibraryCalls :
        CallLogToCsv(call.event_name, call.start_time, call.end_time, call.notes)

\* the programs, with requests of one name without notes, and calls of
\* utils.log_to_csv on their log file
NextLog ==
    \/ Tick
    \/ NextQt
    \/ \E t \in ThreadIds, e \in LogRequests : ReceiveToggle(t, e, <<>>)
    \/ \E t \in ThreadIds : ReceiveAbort(t, <<>>)
    \/ \E t \in ThreadIds : TogglePop(t)
    \/ \E t \in ThreadIds : ToggleNow(t)
    \/ \E t \in ThreadIds : ToggleLog(t)
    \/ \E t \in ThreadIds : ToggleEnded(t)
    \/ \E t \in ThreadIds : ToggleClear(t)
    \/ \E t \in ThreadIds : ToggleStartNow(t)
    \/ \E t \in ThreadIds : ToggleStore(t)
    \/ \E t \in ThreadIds : ToggleStarted(t)
    \/ \E t \in ThreadIds : AbortNext(t)
    \/ \E t \in ThreadIds : AbortPop(t)
    \/ \E t \in ThreadIds : AbortLog(t)
    \/ \E t \in ThreadIds : AbortDone(t)
    \/ \E t \in ThreadIds : AbortNone(t)
    \/ \E t \in ThreadIds : Fail(t)
    \/ NextUtils

SpecLog == Init /\ [][NextLog]_vars

\* every write to the log file succeeds
Spec == Init /\ [][Next]_vars

\* a write to the log file may raise
SpecIO == InitIO /\ [][Next]_vars

\* a run on a log file that already exists
SpecReopen == InitReopen /\ [][Next]_vars

\* the Qt programs with an operator who types notes that begin with
\* ABORTED, and calls of utils.log_to_csv on their log file
InitNotes ==
    /\ faulty = FALSE /\ variant \in {"qt", "backup"} /\ Constructed(FALSE)
    /\ NoDuration

NextNotes ==
    \/ Tick
    \/ \E text \in MarkedNotes : TypeNotes(text)
    \/ \E e \in Events : ClickEvent(e)
    \/ ClickAbort
    \/ \E e \in MissingNames, sq \in QTimes, eq \in QTimes, text \in DialogNotes :
          SubmitMissing(e, sq, eq, text)
    \/ ClickEndSession
    \/ \E reply \in Replies : AnswerEndSession(reply)
    \/ CloseSessionEnded
    \/ CloseWindow
    \/ \E reply \in Replies : AnswerClose(reply)
    \/ NextUtils

SpecNotes == InitNotes /\ [][NextNotes]_vars

\* the Qt programs with an operator who records missing events with times
\* within a second and with blank notes
InitMissing ==
    /\ faulty = FALSE /\ variant \in {"qt", "backup"} /\ Constructed(FALSE)
    /\ NoDuration

NextMissing ==
    \/ Tick
    \/ \E e \in Events : ClickEvent(e)
    \/ ClickAbort
    \/ \E e \in MissingNames, sq \in QTimesFine, eq \in QTimesFine,
          text \in DialogNotesWide :
          SubmitMissing(e, sq, eq, text)
    \/ ClickEndSession
    \/ \E reply \in Replies : AnswerEndSession(reply)
    \/ CloseSessionEnded
    \/ CloseWindow
    \/ \E reply \in Replies : AnswerClose(reply)

SpecMissing == InitMissing /\ [][NextMissing]_vars

\* the Flask program with requests that carry the name of a marker row
InitMarkers ==
    /\ faulty = FALSE /\ variant = "web" /\ Constructed(FALSE) /\ NoDuration

NextMarkers ==
    \/ Tick
    \/ \E t \in ThreadIds, e \in MarkerRequests, text \in NoteInputs :
          ReceiveToggle(t, e, text)
    \/ \E t \in ThreadIds, text \in NoteInputs : ReceiveAbort(t, text)
    \/ \E t \in ThreadIds : TogglePop(t)
    \/ \E t \in ThreadIds : ToggleNow(t)
    \/ \E t \in ThreadIds : ToggleLog(t)
    \/ \E t \in ThreadIds : ToggleEnded(t)
    \/ \E t \in ThreadIds : ToggleClear(t)
    \/ \E t \in ThreadIds : ToggleStartNow(t)
    \/ \E t \in ThreadIds : ToggleStore(t)
    \/ \E t \in ThreadIds : ToggleStarted(t)
    \/ \E t \in ThreadIds : AbortNext(t)
    \/ \E t \in ThreadIds : AbortPop(t)
    \/ \E t \in ThreadIds : AbortLog(t)
    \/ \E t \in ThreadIds : AbortDone(t)
    \/ \E t \in ThreadIds : AbortNone(t)
    \/ \E t \in ThreadIds : Fail(t)

SpecMarkers == InitMarkers /\ [][NextMarkers]_vars

\* the two computations of a duration, applied to sample times
DurationFrame == UNCHANGED <<config, clock, data_file, run_parser, active_events,
                             current_event, active_button, enabled,
                             missing_enabled, notes_input, status, message,
                             closed, box, session_end_time, dropped, threads, requests,
                             duration_args>>

\* a call of utils.calculate_duration(start_time, end_time)
CallCalculateDuration ==
    /\ duration_str' = Some([by |-> "calculate_duration",
                             text |-> calculate_duration(duration_args.start,
                                                         duration_args.end)])
    /\ DurationFrame

\* the duration end_session computes from session_start_time and
\* datetime.now()
EndSessionDuration ==
    /\ ~IsNone(duration_args.end)
    /\ duration_str' = Some([by |-> "end_session",
                             text |-> IF ~IsNone(duration_args.start)
                                      THEN DurationStr(Value(duration_args.start),
                                                       Value(duration_args.end))
                                      ELSE NA])
    /\ DurationFrame

InitDuration ==
    /\ faulty = FALSE /\ variant = "qt" /\ Constructed(FALSE)
    /\ duration_str = None
    /\ \/ \E s \in DurationStarts, d \in DurationSpans,
                u \in DurationMicros, v \in DurationMicros :
             duration_args = [start |-> Some(Datetime(s, u)),
                              end |-> Some(Datetime(s + d, v))]
       \/ \E s \in DurationStarts :
             duration_args \in {[start |-> Some(Datetime(s, 0)), end |-> None],
                                [start |-> None, end |-> Some(Datetime(s, 0))]}
       \/ duration_args = [start |-> None, end |-> None]

NextDuration == CallCalculateDuration \/ EndSessionDuration

SpecDuration == InitDuration /\ [][NextDuration]_vars


(***************************************************************************)
(* Reading rows back, for the properties.                                  *)
(***************************************************************************)
DigitValue(c) == (CHOOSE i \in 1..10 : Digit[i] = c) - 1

RECURSIVE ParseDecimal(_)
ParseDecimal(s) == IF Len(s) = 1 THEN DigitValue(s[1])
                   ELSE 10 * ParseDecimal(SubSeq(s, 1, Len(s) - 1))
                        + DigitValue(s[Len(s)])

\* the second since the epoch that a date field and a time field (HH:MM:SS)
\* denote
FieldsDatetime(date, time) ==
    ParseDecimal(Tail(date)) * SecondsPerDay
    + ParseDecimal(SubSeq(time, 1, 2)) * 3600
    + ParseDecimal(SubSeq(time, 4, 5)) * 60
    + ParseDecimal(SubSeq(time, 7, 8))

RowStart(row) == FieldsDatetime(row.StartDate, row.StartTime)
RowEnd(row) == FieldsDatetime(row.EndDate, row.EndTime)

\* rows the run has appended after the SESSION START row
Logged == HandlerRows(data_file)
LastRow == data_file[Len(data_file)]
\* the rows a step appends
NewRows == SubSeq(data_file', Len(data_file) + 1, Len(data_file'))
HasSessionEnd(rows) == \E i \in 1..Len(rows) : rows[i].Event = "SESSION END"
IsAbortedRow(row) == StartsWith(row.Notes, <<"ABORTED">>)
IsMissingRow(row) == StartsWith(row.Notes, <<"Missing event">>)

\* the request on thread t has been the only one in flight since it arrived
ServedAlone(t) == t \in InFlight /\ threads[t].before # None
\* the active events and the number of rows that the request found
Found(t) == Value(threads[t].before)
\* the row that the request on thread t wrote is the last of the log, and
\* the only one since the request arrived
WroteOneRow(t) ==
    /\ Len(data_file) = Found(t).rows + 1
    /\ LastRow.Event = threads[t].event
    /\ RowStart(LastRow) = Value(threads[t].start).sec
\* the request on thread t has appended nothing
WroteNothing(t) == Len(data_file) = Found(t).rows

(***************************************************************************)
(* Claims.  A claim about an operation is stated, for the Qt programs, of  *)
(* the step that runs the handler, and, for the Flask program, of the step *)
(* in which a request that was served alone returns its response: the      *)
(* state the request found is compared with the state it leaves.           *)
(***************************************************************************)

\* C1: a toggle of event y while a different event x is active is rejected:
\* the active events and the log stay as they were.
C1_OtherToggleRejected ==
    /\ [][\A x \in Events, y \in Events :
            (x # y /\ DictHas(active_events, x) /\ ClickEvent(y))
                => (active_events' = active_events /\ data_file' = data_file)]_vars
    /\ [][\A t \in ThreadIds :
            (ServedAlone(t) /\ ToggleStarted(t)
               /\ \E x \in Keys(Found(t).active_events) : x # threads[t].event)
                => (active_events = Found(t).active_events /\ WroteNothing(t))]_vars

\* C2: in every reachable state, after any sequence of toggle, abort,
\* missing-event, end-session and close operations, active_events holds no
\* entry or one.
C2_AtMostOneActive == Len(active_events) <= 1

\* C3: a toggle of x with no event active makes x active from the current
\* time and writes nothing; the following toggle of x appends exactly one row
\* for x, whose start is that time, whose end is present and not before the
\* start, and leaves no event active.
C3_ToggleTwiceOneRow ==
    /\ [][\A x \in Events :
            (active_events = EmptyDict /\ ClickEvent(x))
                => /\ active_events' = <<Item(x, clock)>>
                   /\ data_file' = data_file]_vars
    /\ [][\A x \in Events :
            (DictHas(active_events, x) /\ ClickEvent(x))
                => /\ Len(data_file') = Len(data_file) + 1
                   /\ SubSeq(data_file', 1, Len(data_file)) = data_file
                   /\ LastRow'.Event = x
                   /\ LastRow'.EndDate # NA /\ LastRow'.EndTime # NA
                   /\ RowStart(LastRow') = DictGet(active_events, x).sec
                   /\ RowStart(LastRow') <= RowEnd(LastRow')
                   /\ active_events' = EmptyDict]_vars
    /\ [][\A t \in ThreadIds :
            (ServedAlone(t) /\ Found(t).active_events = EmptyDict
               /\ (ToggleStarted(t) \/ ToggleEnded(t)))
                => /\ threads[t].pc = "toggle_started"
                   /\ active_events = <<Item(threads[t].event, Value(threads[t].now))>>
                   /\ ~Before(clock, Value(threads[t].now))
                   /\ WroteNothing(t)]_vars
    /\ [][\A t \in ThreadIds :
            (ServedAlone(t) /\ Len(Found(t).active_events) = 1
               /\ DictHas(Found(t).active_events, threads[t].event)
               /\ (ToggleStarted(t) \/ ToggleEnded(t)))
                => /\ threads[t].pc = "toggle_ended"
                   /\ WroteOneRow(t)
                   /\ LastRow.EndDate # NA /\ LastRow.EndTime # NA
                   /\ RowStart(LastRow)
                        = DictGet(Found(t).active_events, threads[t].event).sec
                   /\ RowStart(LastRow) <= RowEnd(LastRow)
                   /\ active_events = EmptyDict]_vars

\* C3 witness: the last row is that of an event ended by its second toggle
\* after the clock moved, and no event is active.
C3_Witness ==
    /\ Logged >= 1
    /\ LastRow.Event \in Events
    /\ LastRow.EndTime # NA
    /\ ~IsMissingRow(LastRow)
    /\ RowStart(LastRow) < RowEnd(LastRow)
    /\ active_events = EmptyDict

\* C4: an abort while an event is active appends exactly one row for that
\* event with End Date and End Time N/A and notes "ABORTED" (no notes) or
\* "ABORTED: <notes>", and leaves no event active.
C4_AbortRow ==
    /\ [][\A text \in NoteInputs :
            (active_events # EmptyDict /\ ClickAbort /\ notes_input = text)
                => /\ Len(data_file') = Len(data_file) + 1
                   /\ SubSeq(data_file', 1, Len(data_file)) = data_file
                   /\ LastRow'.Event = active_events[1].name
                   /\ RowStart(LastRow') = active_events[1].start.sec
                   /\ LastRow'.EndDate = <<"N/A">> /\ LastRow'.EndTime = <<"N/A">>
                   /\ LastRow'.Notes = IF text = <<>> THEN <<"ABORTED">>
                                       ELSE <<"ABORTED", ": ">> \o text
                   /\ active_events' = EmptyDict]_vars
    /\ [][\A t \in ThreadIds :
            (ServedAlone(t) /\ Len(Found(t).active_events) = 1
               /\ (AbortDone(t) \/ AbortNone(t)))
                => /\ threads[t].pc = "abort_done"
                   /\ WroteOneRow(t)
                   /\ LastRow.Event = Found(t).active_events[1].name
                   /\ RowStart(LastRow) = Found(t).active_events[1].start.sec
                   /\ LastRow.EndDate = <<"N/A">> /\ LastRow.EndTime = <<"N/A">>
                   /\ LastRow.Notes = IF threads[t].notes = <<>> THEN <<"ABORTED">>
                                      ELSE <<"ABORTED", ": ">> \o threads[t].notes
                   /\ active_events = EmptyDict]_vars

\* C4 witness: the last row is an aborted event's, with the operator's notes.
C4_Witness ==
    /\ Logged >= 1
    /\ LastRow.Event \in Events
    /\ LastRow.Notes = <<"ABORTED", ": ", " ", "a", " ">>
    /\ LastRow.EndTime = NA
    /\ active_events = EmptyDict

\* C5: an abort while no event is active reports that there is no active
\* event, appends nothing and leaves the active events and the session as
\* they were.
C5_AbortNothingActive ==
    /\ [][(active_events = EmptyDict /\ ClickAbort)
            => /\ message' = <<"No Active Event">>
               /\ data_file' = data_file
               /\ active_events' = active_events
               /\ closed' = closed /\ run_parser' = run_parser
               /\ session_start_time' = session_start_time]_vars
    /\ [][\A t \in ThreadIds :
            (ServedAlone(t) /\ Found(t).active_events = EmptyDict
               /\ (AbortDone(t) \/ AbortNone(t)))
                => /\ message' = <<"No active event to abort.">>
                   /\ status' = <<"No active event">>
                   /\ WroteNothing(t)
                   /\ active_events = EmptyDict]_vars

\* C5 witness: the abort handler has answered that nothing is active.
C5_Witness ==
    /\ message \in {<<"No Active Event">>, <<"No active event to abort.">>}
    /\ active_events = EmptyDict

\* C6: a missing event whose end is not after its start is refused with
\* "Invalid Time Range" and appends nothing; otherwise exactly one row is
\* appended, for that name, with that start and end on the current date and
\* with notes "Missing event" or "Missing event: <trimmed notes>".
C6_MissingEvent ==
    [][\A e \in MissingNames, sq \in QTimesFine, eq \in QTimesFine,
          text \in DialogNotesWide :
          SubmitMissing(e, sq, eq, text)
              => IF eq <= sq
                 THEN /\ data_file' = data_file
                      /\ message' = <<"Invalid Time Range">>
                 ELSE /\ Len(data_file') = Len(data_file) + 1
                      /\ SubSeq(data_file', 1, Len(data_file)) = data_file
                      /\ LastRow'.Event = e
                      /\ LastRow'.StartDate = StrfDate(clock)
                      /\ LastRow'.StartTime
                           = StrfTime(Datetime(sq \div MsPerSecond, 0))
                      /\ LastRow'.EndDate = StrfDate(clock)
                      /\ LastRow'.EndTime
                           = StrfTime(Datetime(eq \div MsPerSecond, 0))
                      /\ LastRow'.Notes
                           = IF \A i \in 1..Len(text) : text[i] # "a"
                             THEN <<"Missing event">>
                             ELSE <<"Missing event", ": ", "a">>
                      /\ message' = <<"Success">>]_vars

\* C6 witness: a missing event was logged with trimmed notes, and after it
\* one with notes of white space only, whose end is after its start within
\* the same second.
C6_Witness ==
    /\ Logged >= 2
    /\ data_file[Len(data_file) - 1].Notes = <<"Missing event", ": ", "a">>
    /\ LastRow.Notes = <<"Missing event">>
    /\ LastRow.StartTime = LastRow.EndTime
    /\ message = <<"Success">>

\* C7: End Session while an event is active appends no SESSION END row and
\* does not end the session, whatever the operator answers: neither the click
\* nor the answer to the question writes the row, opens the "Session Ended"
\* box or closes the window.
C7_EndSessionFailsWhenActive ==
    [][((active_events # EmptyDict /\ ClickEndSession)
          \/ \E reply \in Replies : AnswerEndSession(reply))
          => /\ ~HasSessionEnd(NewRows)
             /\ box' # SessionEndedBox
             /\ closed' = closed]_vars

\* C8: among the rows a run of a Qt program appends, a SESSION END row is the
\* only one of its kind and the last row.
C8_SessionEndTerminal ==
    IsQt => \A i \in 1..Len(Appended) :
                Appended[i].Event = "SESSION END" => i = Len(Appended)

\* C9 (as claimed): whenever the window has closed, the run has appended a
\* SESSION END row.
C9_ClosedHasSessionEnd == closed => HasSessionEnd(Appended)

\* C9 (amended): End Session, where session_start_time is defined, closes
\* the application only from its "Session Ended" box, which it opens in the
\* step that appends the SESSION END row: the row is the last of the log
\* when the box is closed, and the close that follows appends no SESSION END
\* row; closing the window directly appends no SESSION END row.
C9_SessionEndOnlyByEndSession ==
    /\ [][((session_start_attr /\ ClickEndSession)
             \/ \E reply \in Replies : AnswerEndSession(reply))
            => /\ ~closed'
               /\ (box' = SessionEndedBox) <=> HasSessionEnd(NewRows)]_vars
    /\ [][CloseSessionEnded
            => /\ LastRow.Event = "SESSION END"
               /\ data_file' = data_file]_vars
    /\ [][(CloseWindow \/ \E reply \in Replies : AnswerClose(reply))
            => ~HasSessionEnd(NewRows)]_vars

\* C9 witness: the window was closed by the operator after an event was
\* logged and the run has no SESSION END row.
C9_Witness ==
    /\ closed /\ message # Unhandled
    /\ Logged >= 1 /\ ~HasSessionEnd(Appended)

\* C10: when the write of a toggle that ends an event, or of an abort, fails
\* (the handler ran on an active event and the log is unchanged), the event
\* is still active with its start time and no success is reported.
C10_FailedWriteKeepsState ==
    [][((\E e \in Keys(active_events) : ClickEvent(e))
           \/ (active_events # EmptyDict /\ ClickAbort))
          /\ data_file' = data_file
          => /\ active_events' = active_events
             /\ message' = Unhandled]_vars

\* the whole seconds from t0 to a later t3
Elapsed(t0, t3) ==
    IF t3.usec < t0.usec THEN t3.sec - t0.sec - 1 ELSE t3.sec - t0.sec
\* the rows the scenario of C11 expects
ExpectedStart(t0) ==
    Row("SESSION START", StrfDate(t0), StrfTime(t0), <<"N/A">>, <<"N/A">>,
        <<"Session started">>)
ExpectedMeal(t1, t2, text) ==
    Row("Meal", StrfDate(t1), StrfTime(t1), StrfDate(t2), StrfTime(t2), text)
ExpectedEnd(t0, t3) ==
    Row("SESSION END", StrfDate(t0), StrfTime(t0), StrfDate(t3), StrfTime(t3),
        <<"Session ended, duration: ">>
            \o HMS(Elapsed(t0, t3) \div 3600, (Elapsed(t0, t3) % 3600) \div 60,
                   Elapsed(t0, t3) % 60))
\* the session start was recorded at t0 on a fresh file and nothing else
\* has been logged
ScenarioStarted(t0) ==
    /\ session_start_time = Some(t0)
    /\ data_file = <<Header, ExpectedStart(t0)>>

\* C11: on a fresh file, a recorded session start at T0, a toggle of Meal at
\* T1, a toggle of Meal at T2 and End Session at T3 leave the header once at
\* the top followed by exactly the rows SESSION START (T0), Meal (T1, T2) and
\* SESSION END (start T0, end T3, duration the whole seconds of T3 - T0), in
\* this order.
C11_FreshSessionScenario ==
    /\ (session_start_time # None => ScenarioStarted(clock))
    /\ [][(Len(data_file) = 2 /\ session_start_time # None
             /\ ScenarioStarted(Value(session_start_time))
             /\ active_events = EmptyDict /\ ClickEvent("Meal"))
            => /\ data_file' = data_file
               /\ active_events' = <<Item("Meal", clock)>>]_vars
    /\ [][\A t1 \in Instants :
            (Len(data_file) = 2 /\ session_start_time # None
               /\ ScenarioStarted(Value(session_start_time))
               /\ active_events = <<Item("Meal", t1)>> /\ ClickEvent("Meal"))
              => /\ data_file' = Append(data_file,
                                        ExpectedMeal(t1, clock, notes_input))
                 /\ active_events' = EmptyDict]_vars
    /\ [][\A t1 \in Instants, t2 \in Instants, text \in NoteInputs :
            (Len(data_file) = 3 /\ session_start_time # None
               /\ active_events = EmptyDict
               /\ data_file = <<Header, ExpectedStart(Value(session_start_time)),
                                ExpectedMeal(t1, t2, text)>>
               /\ ClickEndSession)
              => /\ data_file' = <<Header,
                                   ExpectedStart(Value(session_start_time)),
                                   ExpectedMeal(t1, t2, text),
                                   ExpectedEnd(Value(session_start_time), clock)>>
                 /\ box' = SessionEndedBox]_vars
    /\ [][(active_events = EmptyDict /\ CloseSessionEnded)
            => /\ data_file' = data_file
               /\ closed']_vars

\* C11 witness: the scenario has run, with the clock moving between the two
\* toggles, and the window is closed: the session lasted 1.2 seconds, from
\* 23:59:59 to 00:00:01, and its duration is 00:00:01.
C11_Witness ==
    /\ closed
    /\ Len(data_file) = 4
    /\ data_file[1] = Header
    /\ data_file[2] = ExpectedStart(Opening)
    /\ data_file[3] = ExpectedMeal(Opening, Later, <<>>)
    /\ data_file[4] = ExpectedEnd(Opening, Later)
    /\ data_file[4].Notes = <<"Session ended, duration: ", "0", "0", ":", "0", "0",
                              ":", "0", "1">>

\* C12: in the Qt programs the rows a run appends hold at most one SESSION
\* START row, and when there is one it is the first of them, before every
\* event, missing-event and SESSION END row of the run.
C12_SessionStartOnceAndFirst ==
    IsQt => \A i \in 1..Len(Appended) :
                Appended[i].Event = "SESSION START" => i = 1

\* C12 witness: a run that recorded its start has since logged an event and
\* ended the session.
C12_Witness ==
    /\ Len(Appended) = 3
    /\ Appended[1].Event = "SESSION START"
    /\ Appended[2].Event \in Events
    /\ Appended[3].Event = "SESSION END"

\* the SESSION END row of a run whose start was not recorded
ExpectedEndNoStart(t3) ==
    Row("SESSION END", <<"N/A">>, <<"N/A">>, StrfDate(t3), StrfTime(t3),
        <<"Session ended, duration: N/A (session start was skipped)">>)

\* C13: in both Qt programs End Session, unless it is cancelled, appends a
\* SESSION END row: with the session start, the closing time and their
\* difference when the start was recorded, with N/A start fields, the closing
\* time and an N/A duration when it was not.  The closing time is the time of
\* the click: with an event active the handler asks first, and writes the row
\* after the answer Yes or No.
C13_EndSessionRow ==
    /\ [][(active_events = EmptyDict /\ ClickEndSession)
            => \E i \in (Len(data_file) + 1)..Len(data_file') :
                  data_file'[i] = IF session_start_time # None
                                  THEN ExpectedEnd(Value(session_start_time), clock)
                                  ELSE ExpectedEndNoStart(clock)]_vars
    /\ [][(active_events # EmptyDict /\ ClickEndSession)
            => box' = EndSessionQuestion /\ session_end_time' = Some(clock)]_vars
    /\ [][\A reply \in {"Yes", "No"} :
            AnswerEndSession(reply)
              => \E i \in (Len(data_file) + 1)..Len(data_file') :
                    data_file'[i] = IF session_start_time # None
                                    THEN ExpectedEnd(Value(session_start_time),
                                                     Value(session_end_time))
                                    ELSE ExpectedEndNoStart(Value(session_end_time))]_vars

\* a submission of the missing-event dialog, with any of its inputs
SubmitStep ==
    \E e \in MissingNames, sq \in QTimesFine, eq \in QTimesFine,
       text \in DialogNotesWide :
        SubmitMissing(e, sq, eq, text)

\* what a missing-event submission must leave alone
SubmitFrame ==
    /\ active_events' = active_events
    /\ current_event' = current_event
    /\ active_button' = active_button
    /\ session_start_time' = session_start_time
    /\ closed' = closed

\* C14 (as claimed): a missing event can be recorded in every state of the
\* running Qt program, also while an event is active, and a submission,
\* accepted or rejected, changes neither the active event nor the session
\* (a step that changes one of them is not a submission).
C14_MissingEventAnyState ==
    /\ []((IsQt /\ Running) => missing_enabled)
    /\ [][~SubmitFrame => ~SubmitStep]_vars

\* C14 (amended): the missing-event dialog can be opened exactly while no
\* event is active, and a submission, accepted or rejected, changes neither
\* the active events nor the session (a step that changes one of them is not
\* a submission).
C14_MissingEventWhenIdle ==
    /\ []((IsQt /\ Running) => (missing_enabled <=> active_events = EmptyDict))
    /\ [][~SubmitFrame => ~SubmitStep]_vars

\* C14 witness: a missing event was recorded, an event has started since and
\* the missing-event button is disabled.
C14_Witness ==
    /\ \E i \in 1..Len(Appended) : IsMissingRow(Appended[i])
    /\ active_events # EmptyDict
    /\ ~missing_enabled
    /\ Running

\* C15: the log is append-only: in every step the rows present before are a
\* prefix of the rows present after.
C15_AppendOnly ==
    [][/\ Len(data_file') >= Len(data_file)
       /\ SubSeq(data_file', 1, Len(data_file)) = data_file]_vars

\* C15 witness: End Session has appended the SESSION END row and waits in its
\* "Session Ended" box, and a call of log_to_csv without an end time has
\* appended its row after it.
C15_Witness ==
    /\ IsQt /\ box = SessionEndedBox /\ ~closed
    /\ Len(data_file) >= 3
    /\ data_file[Len(data_file) - 1].Event = "SESSION END"
    /\ LastRow.Event = "Meal"
    /\ LastRow.EndDate = NA /\ LastRow.EndTime = NA
    /\ LastRow.Notes = <<>>

\* C16: when startup finds the file of its name, the header is not written
\* again and the rows of the file are kept: the file starts with the rows it
\* held, the header is its first row and no other row is a header.
C16_HeaderOnceRowsKept ==
    /\ data_file[1] = Header
    /\ \A i \in 2..Len(data_file) : data_file[i] # Header
    /\ Len(data_file) >= Len(PriorFile(variant))
    /\ SubSeq(data_file, 1, Len(PriorFile(variant))) = PriorFile(variant)

\* C16 witness: the run found a file with a row in it and has logged an event.
C16_Witness ==
    /\ rows_at_open >= 2
    /\ Len(data_file) > rows_at_open
    /\ LastRow.Event \in Events

\* the rows the file held, after its header, when the run opened it
EarlierRows == SubSeq(data_file, 2, rows_at_open)

\* C17: no log file holds rows of more than one run: a file that held rows
\* of an earlier run gets no row of this run.
C17_OneSessionPerFile == EarlierRows = <<>> \/ Appended = <<>>

MarkerNames == {"SESSION START", "SESSION END"}

\* a step of a toggle, an abort or a missing-event submission, in any of the
\* programs
EventStep ==
    \/ \E e \in Events : ClickEvent(e)
    \/ ClickAbort
    \/ SubmitStep
    \/ \E t \in ThreadIds : ToggleLog(t) \/ AbortLog(t)

\* C18: no toggle, abort or missing-event step appends a row whose Event
\* field is SESSION START or SESSION END.
C18_MarkersReserved ==
    [][EventStep => \A i \in 1..Len(NewRows) :
                        NewRows[i].Event \notin MarkerNames]_vars

\* C19 (as claimed): a step of a Qt program that changes the active events
\* and the status shown has appended a log row.
C19_EveryTransitionLogged ==
    [][(IsQt /\ active_events' # active_events /\ status' # status)
          => Len(data_file') > Len(data_file)]_vars

\* C19 (amended): in the Qt programs, when the status shows that the active
\* event has ended or was aborted, the step has appended that event's row,
\* also when writes can fail; a step that starts an event shows "<name> has
\* started" and appends nothing.
C19_EndAndAbortLoggedFirst ==
    /\ [][(IsQt /\ active_events # EmptyDict /\ active_events' = EmptyDict
             /\ status' \in {StatusIdle, StatusAborted})
            => \E i \in 1..Len(NewRows) :
                  /\ NewRows[i].Event = active_events[1].name
                  /\ RowStart(NewRows[i]) = active_events[1].start.sec]_vars
    /\ [][(IsQt /\ active_events' # EmptyDict /\ active_events' # active_events)
            => /\ data_file' = data_file
               /\ status' = StatusStarted(active_events'[1].name)]_vars

\* C19 witness: where writes can fail, an event was aborted: its row is the
\* last of the log and the status shows the abort.
C19_Witness ==
    /\ faulty /\ IsQt
    /\ status = StatusAborted
    /\ Logged >= 1
    /\ IsAbortedRow(LastRow)
    /\ active_events = EmptyDict

\* a row written for the active event by a toggle or an abort
IsEventRow(row) ==
    IF IsQt THEN row.Event \notin MarkerNames /\ ~IsMissingRow(row) ELSE TRUE

\* a step of a Qt program appends event rows only for the entry that was
\* active just before it
QtRowsFromActive ==
    \A i \in 1..Len(NewRows) :
        IsEventRow(NewRows[i])
          => /\ active_events # EmptyDict
             /\ NewRows[i].Event = active_events[1].name
             /\ RowStart(NewRows[i]) = active_events[1].start.sec

\* a request thread of the Flask program takes its start time only from
\* the entry of its event, which it removes, and the row it appends carries
\* that name and that start
WebRowsFromPopped ==
    /\ \A t \in ThreadIds :
          (threads'[t].start # None /\ threads'[t].start # threads[t].start)
            => /\ DictHas(active_events, threads[t].event)
               /\ threads'[t].start = Some(DictGet(active_events, threads[t].event))
               /\ ~DictHas(active_events', threads[t].event)
    /\ Len(NewRows) <= 1
    /\ Len(NewRows) = 1
         => \E t \in ThreadIds :
               /\ threads[t].pc \in {"toggle_log", "abort_log"}
               /\ threads'[t].pc # threads[t].pc
               /\ NewRows[1].Event = threads[t].event
               /\ RowStart(NewRows[1]) = Value(threads[t].start).sec

\* C20: a toggle of y while another event x is active drops x without
\* writing a row; from then on x's entry is gone: every event row a step
\* appends carries the name and the start of the entry that was active just
\* before the operation removed it, and an entry enters the active events
\* only with the clock reading of the toggle that starts it.
C20_DiscardedStartNeverLogged ==
    /\ [][\A t \in ThreadIds : ToggleClear(t) => data_file' = data_file]_vars
    /\ [][\A t \in ThreadIds :
            (ServedAlone(t) /\ ToggleStarted(t)
               /\ Found(t).active_events # EmptyDict)
              => /\ WroteNothing(t)
                 /\ active_events
                      = <<Item(threads[t].event, Value(threads[t].now))>>]_vars
    /\ [][IF IsQt THEN QtRowsFromActive ELSE WebRowsFromPopped]_vars
    /\ [][\A j \in 1..Len(active_events') :
            (\A k \in 1..Len(active_events) : active_events[k] # active_events'[j])
              => \/ IsQt /\ active_events'[j].start = clock
                 \/ \E t \in ThreadIds :
                       /\ ToggleStore(t)
                       /\ active_events'[j]
                            = Item(threads[t].event, Value(threads[t].now))
                       /\ ~Before(clock, Value(threads[t].now))]_vars

\* C20 witness: Meal was dropped by the start of Walk, and Walk has since
\* been ended and logged.
C20_Witness ==
    /\ dropped = Some(Item("Meal", Opening))
    /\ Logged >= 1
    /\ LastRow.Event = "Walk"
    /\ RowStart(LastRow) = Later.sec
    /\ active_events = EmptyDict

\* C21: a toggle of a name while no event is active makes it the active
\* event, started at the current time, and leaves the log as it was; and a
\* step that closes the window with the event still active appends no row
\* for it, so an event that is never ended or aborted contributes no row.
C21_StartWritesNothing ==
    /\ [][\A x \in Events :
            (active_events = EmptyDict /\ ClickEvent(x))
              => /\ active_events' = <<Item(x, clock)>>
                 /\ Len(data_file') = Len(data_file)
                 /\ data_file' = data_file]_vars
    /\ [][\A t \in ThreadIds :
            (ServedAlone(t) /\ Found(t).active_events = EmptyDict
               /\ ToggleStarted(t))
              => /\ active_events
                      = <<Item(threads[t].event, Value(threads[t].now))>>
                 /\ WroteNothing(t)]_vars
    /\ [][\A t \in ThreadIds :
            (ToggleClear(t) \/ ToggleStartNow(t) \/ ToggleStore(t)
               \/ ToggleStarted(t))
              => data_file' = data_file]_vars
    /\ [][(~closed /\ closed' /\ active_events' # EmptyDict)
            => /\ active_events' = active_events
               /\ \A i \in 1..Len(NewRows) : ~IsEventRow(NewRows[i])]_vars

\* C21 witness: the window was closed while Meal, started at the last
\* moment, was still active, and the run has logged no event row.
C21_Witness ==
    /\ closed /\ message # Unhandled
    /\ active_events = <<Item("Meal", Later)>>
    /\ \A i \in 1..Len(Appended) : ~IsEventRow(Appended[i])

\* C22: in the Qt programs, while an event is active its button is the only
\* enabled event button and the missing-event button is disabled; while no
\* event is active all of them are enabled; so no click toggles another
\* event while one is active.
C22_ButtonsFollowActiveEvent ==
    /\ [](IsQt => IF active_events # EmptyDict
                  THEN enabled = {DictFirst(active_events)} /\ ~missing_enabled
                  ELSE enabled = Events /\ missing_enabled)
    /\ [][\A x \in Events, y \in Events :
            (x # y /\ DictHas(active_events, x)) => ~ClickEvent(y)]_vars

\* C22 witness: after an event was logged and the buttons were enabled
\* again, Walk is active and only its button is enabled.
C22_Witness ==
    /\ IsQt
    /\ Logged >= 1
    /\ LastRow.Event \in Events
    /\ active_events = <<Item("Walk", Later)>>
    /\ enabled = {"Walk"}
    /\ ~missing_enabled

\* C23: the Flask handlers /toggle_event and /abort_event behave as if they
\* ran one after the other on the shared active_events: whatever the
\* interleaving of two requests, active_events never holds two events and no
\* handler fails (HTTP 500) on a key that another handler already removed.
C23_HandlersSerial ==
    variant = "web"
      => /\ Len(active_events) <= 1
         /\ \A t \in ThreadIds : threads[t].pc # "error"

\* C24: in the Qt programs, when End Session asks about the active event: on
\* Cancel nothing is appended and the active event, the session start and the
\* open window stay as they were; on Yes exactly two rows are appended, first
\* the ABORTED row of the active event (its name, its start, no end) and then
\* the SESSION END row, and no event remains active.
C24_EndSessionAnswers ==
    /\ [][(active_events # EmptyDict /\ session_start_attr /\ ClickEndSession)
            => /\ box' = EndSessionQuestion
               /\ data_file' = data_file
               /\ active_events' = active_events
               /\ ~closed']_vars
    /\ [][\A reply \in {"Cancel", "Yes"} :
            AnswerEndSession(reply)
              => IF reply = "Cancel"
                 THEN /\ data_file' = data_file
                      /\ active_events' = active_events
                      /\ current_event' = current_event
                      /\ session_start_time' = session_start_time
                      /\ closed' = closed /\ box' = NoBox
                 ELSE /\ Len(NewRows) = 2
                      /\ NewRows[1].Event = DictFirst(active_events)
                      /\ RowStart(NewRows[1]) = active_events[1].start.sec
                      /\ IsAbortedRow(NewRows[1])
                      /\ NewRows[1].EndDate = NA /\ NewRows[1].EndTime = NA
                      /\ NewRows[2].Event = "SESSION END"
                      /\ active_events' = EmptyDict]_vars

\* C24 witness: the session was ended with Yes while Walk was active: the log
\* ends with Walk's ABORTED row and the SESSION END row, nothing is active.
C24_Witness ==
    /\ IsQt /\ closed /\ active_events = EmptyDict
    /\ Len(Appended) >= 2
    /\ LastRow.Event = "SESSION END"
    /\ data_file[Len(data_file) - 1].Event = "Walk"
    /\ IsAbortedRow(data_file[Len(data_file) - 1])
    /\ RowStart(data_file[Len(data_file) - 1]) = Later.sec

\* C25: in the Qt programs a close of the window while an event is active
\* appends the ABORTED row of that event and is accepted on Yes, is accepted
\* with nothing appended on No, and is ignored on Cancel, the log and the
\* active event as they were; with no event active it is accepted and appends
\* nothing.  The close that End Session requests from its "Session Ended"
\* box, after its SESSION END row (the answer there was No), goes the same
\* three ways.
C25_CloseOutcomes ==
    /\ [][CloseWindow
            => IF active_events = EmptyDict
               THEN closed' /\ data_file' = data_file
               ELSE /\ box' = CloseQuestion /\ ~closed'
                    /\ data_file' = data_file
                    /\ active_events' = active_events]_vars
    /\ [][AnswerEndSession("No")
            => /\ Len(NewRows) = 1
               /\ NewRows[1].Event = "SESSION END"
               /\ box' = SessionEndedBox /\ ~closed'
               /\ active_events' = active_events]_vars
    /\ [][(active_events # EmptyDict /\ CloseSessionEnded)
            => /\ LastRow.Event = "SESSION END"
               /\ box' = CloseQuestion /\ ~closed'
               /\ data_file' = data_file
               /\ active_events' = active_events]_vars
    /\ [][\A reply \in Replies :
            AnswerClose(reply)
              => /\ active_events # EmptyDict
                 /\ CASE reply = "Yes" ->
                             /\ closed' /\ active_events' = EmptyDict
                             /\ Len(NewRows) = 1
                             /\ NewRows[1].Event = DictFirst(active_events)
                             /\ RowStart(NewRows[1]) = active_events[1].start.sec
                             /\ IsAbortedRow(NewRows[1])
                      [] reply = "No" -> closed' /\ data_file' = data_file
                      [] OTHER -> /\ ~closed' /\ box' = NoBox
                                  /\ data_file' = data_file
                                  /\ active_events' = active_events]_vars

\* C25 witness: the window was closed without End Session, and the last row
\* is the ABORTED row of Walk, which has no end.
C25_Witness ==
    /\ IsQt /\ closed /\ active_events = EmptyDict
    /\ message # Unhandled
    /\ ~HasSessionEnd(data_file)
    /\ Logged >= 1
    /\ LastRow.Event = "Walk" /\ IsAbortedRow(LastRow)
    /\ LastRow.EndTime = NA

\* C26: in event_logger_qt.py the attribute session_start_time is defined (a
\* timestamp or None) in every state in which End Session can be clicked,
\* also when record_session_start was not called.
C26_SessionStartDefined ==
    (variant = "qt" /\ Running) => session_start_attr

\* C27: in the Qt programs, while every write succeeds, current_event and
\* active_button mirror active_events in every reachable state: when an event
\* is active it is the only key, and current_event and active_button name it;
\* current_event is None exactly when active_events is empty, and so is
\* active_button.
C27_DisplayMirrorsActive ==
    IsQt => /\ active_events # EmptyDict
               => /\ Len(active_events) = 1
                  /\ current_event = Some(active_events[1].name)
                  /\ active_button = Some(active_events[1].name)
            /\ (current_event = None) <=> (active_events = EmptyDict)
            /\ (active_button = None) <=> (active_events = EmptyDict)

\* C27 witness: Walk was started after an earlier event was aborted, and the
\* window shows Walk as the current event and its button as the active one.
C27_Witness ==
    /\ IsQt /\ Logged >= 1 /\ IsAbortedRow(LastRow)
    /\ active_events = <<Item("Walk", Later)>>
    /\ current_event = Some("Walk") /\ active_button = Some("Walk")

\* C28: a row appended for an ended or aborted event names the event that
\* was active just before the operation and carries the start time that the
\* most recent starting toggle of that event stored: an operation appends at
\* most one such row, the row is built from the active entry and the entry is
\* gone afterwards (a start is logged once); a starting toggle stores the
\* current time; and nothing but a starting toggle adds or changes an entry.
C28_RowFromLatestStart ==
    /\ [][IsQt => \A i \in 1..Len(NewRows) :
            IsEventRow(NewRows[i])
              => /\ \E j \in 1..Len(active_events) :
                       /\ NewRows[i].Event = active_events[j].name
                       /\ RowStart(NewRows[i]) = active_events[j].start.sec
                 /\ ~DictHas(active_events', NewRows[i].Event)
                 /\ \A k \in 1..Len(NewRows) : IsEventRow(NewRows[k]) => k = i]_vars
    /\ [][\A t \in ThreadIds :
            /\ (ToggleLog(t) \/ AbortLog(t))
                 => \A i \in 1..Len(NewRows) :
                       /\ i = 1
                       /\ NewRows[i].Event = threads[t].event
                       /\ RowStart(NewRows[i]) = Value(threads[t].start).sec
            /\ (TogglePop(t) \/ AbortPop(t)) /\ threads'[t].pc # "error"
                 => /\ threads'[t].start
                         = Some(DictGet(active_events, threads[t].event))
                    /\ ~DictHas(active_events', threads[t].event)
            /\ threads'[t].start \notin {None, threads[t].start}
                 => TogglePop(t) \/ AbortPop(t)]_vars
    /\ [][\A e \in Events :
            (~DictHas(active_events, e) /\ ClickEvent(e))
              => DictHas(active_events', e) /\ DictGet(active_events', e) = clock]_vars
    /\ [][\A t \in ThreadIds :
            /\ ToggleStartNow(t) => threads'[t].now = Some(clock)
            /\ ToggleStore(t)
                 => DictGet(active_events', threads[t].event)
                      = Value(threads[t].now)]_vars
    /\ [][\A j \in 1..Len(active_events') :
            (\A k \in 1..Len(active_events) : active_events[k] # active_events'[j])
              => \/ \E e \in Events : ClickEvent(e)
                 \/ \E t \in ThreadIds : ToggleStore(t)]_vars

\* C28 witness: Meal was started, ended and logged, then started again later
\* and aborted: the second row carries the second start.
C28_Witness ==
    /\ Logged >= 2
    /\ data_file[Len(data_file) - 1].Event = "Meal"
    /\ RowStart(data_file[Len(data_file) - 1]) = Opening.sec
    /\ data_file[Len(data_file) - 1].EndTime # NA
    /\ LastRow.Event = "Meal"
    /\ IsAbortedRow(LastRow)
    /\ RowStart(LastRow) = Later.sec

\* the rows of the log after its header
LogRows == SubSeq(data_file, 2, Len(data_file))

\* C29 (as claimed): in a log of the Qt programs every row has End Date N/A
\* exactly when End Time is N/A and only a SESSION END row has N/A start
\* fields; a row the programs write has N/A end fields if and only if it is
\* the SESSION START row or its notes begin with ABORTED.
C29_EndFieldsIffAborted ==
    /\ IsQt => \A i \in 1..Len(LogRows) :
                  (LogRows[i].EndDate = NA)
                    <=> (LogRows[i].Event = "SESSION START" \/ IsAbortedRow(LogRows[i]))
    /\ [](IsQt => \A i \in 1..Len(LogRows) :
                     LET row == LogRows[i]
                     IN  /\ (row.EndDate = NA) <=> (row.EndTime = NA)
                         /\ (row.StartDate = NA \/ row.StartTime = NA)
                              => row.Event = "SESSION END")
    /\ [][~NextUtils
            => \A i \in 1..Len(NewRows) :
                  (NewRows[i].EndDate = NA)
                    <=> (NewRows[i].Event = "SESSION START"
                           \/ IsAbortedRow(NewRows[i]))]_vars

\* C29 (amended): every row has End Date N/A exactly when End Time is N/A,
\* the SESSION START row has N/A end fields and only a SESSION END row has
\* N/A start fields; a row the programs write with N/A end fields is the
\* SESSION START row or has notes that begin with ABORTED; the row an abort
\* writes has N/A end fields and notes that begin with ABORTED; the row a
\* call of log_to_csv writes has N/A end fields exactly when the call names
\* no end time.
C29_EndFieldsOfAborted ==
    /\ IsQt => \A i \in 1..Len(LogRows) :
                  LogRows[i].EndDate = NA
                    => (LogRows[i].Event = "SESSION START" \/ IsAbortedRow(LogRows[i]))
    /\ [](IsQt => \A i \in 1..Len(LogRows) :
                     LET row == LogRows[i]
                     IN  /\ (row.EndDate = NA) <=> (row.EndTime = NA)
                         /\ row.Event = "SESSION START" => row.EndDate = NA
                         /\ (row.StartDate = NA \/ row.StartTime = NA)
                              => row.Event = "SESSION END")
    /\ [][~NextUtils
            => \A i \in 1..Len(NewRows) :
                  NewRows[i].EndDate = NA
                    => (NewRows[i].Event = "SESSION START" \/ IsAbortedRow(NewRows[i]))]_vars
    /\ [][\A call \in LibraryCalls :
             CallLogToCsv(call.event_name, call.start_time, call.end_time, call.notes)
               => /\ Len(NewRows) = 1
                  /\ (NewRows[1].EndDate = NA) <=> IsNone(call.end_time)]_vars
    /\ [][(active_events # EmptyDict /\ ClickAbort)
            => /\ Len(NewRows) = 1
               /\ NewRows[1].EndDate = NA /\ NewRows[1].EndTime = NA
               /\ IsAbortedRow(NewRows[1])]_vars

\* C29 witness: a log with a row of an event that was ended while the notes
\* began with ABORTED (end fields written), followed by the row of an abort
\* (N/A end fields).
C29_Witness ==
    /\ IsQt /\ Len(Appended) >= 2
    /\ data_file[Len(data_file) - 1].Notes = <<"ABORTED", " by mistake">>
    /\ data_file[Len(data_file) - 1].EndDate # NA
    /\ data_file[Len(data_file) - 1].EndTime # NA
    /\ IsAbortedRow(LastRow)
    /\ LastRow.EndDate = NA /\ LastRow.EndTime = NA

\* the positions of the colons of a text
Colons(text) == {i \in 1..Len(text) : text[i] = ":"}
\* a text of decimal digits
IsDigits(text) ==
    Len(text) >= 1 /\ \A i \in 1..Len(text) : \E k \in 1..10 : Digit[k] = text[i]
\* text is HH:MM:SS, of two or more digits for the hours and two digits each
\* for minutes and seconds in 0..59, and denotes d seconds
DenotesSeconds(text, d) ==
    /\ Cardinality(Colons(text)) = 2
    /\ LET c1 == CHOOSE i \in Colons(text) : \A j \in Colons(text) : i <= j
           c2 == CHOOSE i \in Colons(text) : \A j \in Colons(text) : j <= i
           hh == SubSeq(text, 1, c1 - 1)
           mm == SubSeq(text, c1 + 1, c2 - 1)
           ss == SubSeq(text, c2 + 1, Len(text))
       IN  /\ IsDigits(hh) /\ IsDigits(mm) /\ IsDigits(ss)
           /\ Len(hh) >= 2 /\ Len(mm) = 2 /\ Len(ss) = 2
           /\ ParseDecimal(mm) \in 0..59 /\ ParseDecimal(ss) \in 0..59
           /\ ParseDecimal(hh) * 3600 + ParseDecimal(mm) * 60 + ParseDecimal(ss) = d

\* the start and the end are d >= 0 whole seconds apart
WholeSecondsApart(start, end_time) ==
    start.usec = end_time.usec /\ end_time.sec >= start.sec

\* C30: for a start and an end that are d >= 0 whole seconds apart, the
\* duration computed by calculate_duration and by end_session is a text
\* HH:MM:SS with MM and SS in 0..59 and HH*3600 + MM*60 + SS = d, the hours
\* not wrapped at 24; calculate_duration gives N/A when the start or the end
\* is absent.
C30_DurationText ==
    duration_str # None
      => IF ~IsNone(duration_args.start) /\ ~IsNone(duration_args.end)
         THEN WholeSecondsApart(Value(duration_args.start),
                                Value(duration_args.end))
                => DenotesSeconds(Value(duration_str).text,
                                  Value(duration_args.end).sec
                                    - Value(duration_args.start).sec)
         ELSE Value(duration_str).by = "calculate_duration"
                 => Value(duration_str).text = NA

\* C30 witness: calculate_duration has given 25:01:01 for a start and an end
\* 90061 seconds apart.
C30_Witness ==
    /\ duration_args = [start |-> Some(Datetime(StartClock, 900000)),
                        end |-> Some(Datetime(StartClock + 90061, 900000))]
    /\ duration_str = Some([by |-> "calculate_duration",
                            text |-> <<"2", "5", ":", "0", "1", ":", "0", "1">>])

====
